---- MODULE Spec2Model ----
(***************************************************************************)
(* Generic AVL tree container of src/bstree.c, driven as in src/main.c.    *)
(*                                                                         *)
(* A tree is NULL or a node record with the fields of struct bstree_node.  *)
(* A stored object is a pair <<key, id>>: key is the int the comparator    *)
(* looks at, id is the identity of the allocation the pointer refers to.   *)
(***************************************************************************)
EXTENDS Integers, Sequences, FiniteSets, TLC

VARIABLES tree, destroyed, nextObj, freed, entered, last

vars == <<tree, destroyed, nextObj, freed, entered, last>>

(* ---------------------------------------------------------------------- *)
(* Bounds                                                                 *)
(* ---------------------------------------------------------------------- *)
MaxKey == 4          \* keys of the owning/non-owning client are 1..MaxKey
MaxObj == 4          \* number of payloads the client allocates
MaxStop == 3         \* the visitor stops at its n-th call, n in 1..MaxStop
WideMaxKey == 9      \* keys of the int-set client are 1..WideMaxKey
SeqMaxKey == 8       \* keys of the insert-only client are 1..SeqMaxKey
SetMaxKey == 8       \* keys of the insert/remove client are 1..SetMaxKey

Keys == 1..MaxKey
WideKeys == 1..WideMaxKey
SeqKeys == 1..SeqMaxKey
SetKeys == 1..SetMaxKey
AllKeys == Keys \cup WideKeys \cup SeqKeys \cup SetKeys
Objs == 1..MaxObj

(* ---------------------------------------------------------------------- *)
(* Program constants                                                      *)
(* ---------------------------------------------------------------------- *)
MAX_IMBALANCE == 1

NULL == <<>>

(* ---------------------------------------------------------------------- *)
(* Internal helper functions                                              *)
(* ---------------------------------------------------------------------- *)
int_max_(a, b) == IF a > b THEN a ELSE b

height_(root) == IF root = NULL THEN -1 ELSE root.height

mknode_(object) ==
    [object |-> object, left |-> NULL, right |-> NULL, count |-> 1, height |-> 0]

\* cmp_int: the difference of the two ints the objects point to
compare_object(lhs, rhs) == lhs[1] - rhs[1]

\* rotate_with_left_ with the old root hung on the wrong side of the new one
rotate_with_left_wrong_link(root) ==
    LET newroot == root.left
        root1 == [root EXCEPT !.left = newroot.right]
        root2 == [root1 EXCEPT !.height =
                    int_max_(height_(root1.left), height_(root1.right)) + 1]
        newroot1 == [newroot EXCEPT !.left = root2]
    IN  [newroot1 EXCEPT !.height =
            int_max_(height_(newroot1.left), height_(newroot1.right)) + 1]

rotate_with_left_(root) ==
    LET newroot == root.left
        root1 == [root EXCEPT !.left = newroot.right]
        root2 == [root1 EXCEPT !.height =
                    int_max_(height_(root1.left), height_(root1.right)) + 1]
        newroot1 == [newroot EXCEPT !.right = root2]
    IN  [newroot1 EXCEPT !.height =
            int_max_(height_(newroot1.left), height_(newroot1.right)) + 1]

rotate_with_right_(root) ==
    LET newroot == root.right
        root1 == [root EXCEPT !.right = newroot.left]
        root2 == [root1 EXCEPT !.height =
                    int_max_(height_(root1.left), height_(root1.right)) + 1]
        newroot1 == [newroot EXCEPT !.left = root2]
    IN  [newroot1 EXCEPT !.height =
            int_max_(height_(newroot1.left), height_(newroot1.right)) + 1]

double_with_left_(root) ==
    rotate_with_left_([root EXCEPT !.left = rotate_with_right_(root.left)])

double_with_right_(root) ==
    rotate_with_right_([root EXCEPT !.right = rotate_with_left_(root.right)])

\* balance_ that leaves the height as it is after the rotations
balance_no_refresh(root) ==
    IF root = NULL THEN NULL
    ELSE IF height_(root.left) - height_(root.right) > MAX_IMBALANCE
    THEN IF height_(root.left.left) > height_(root.left.right)
         THEN rotate_with_left_(root)
         ELSE double_with_left_(root)
    ELSE IF height_(root.right) - height_(root.left) > MAX_IMBALANCE
    THEN IF height_(root.right.right) > height_(root.right.left)
         THEN rotate_with_right_(root)
         ELSE double_with_right_(root)
    ELSE root

\* balance_ that refreshes the height and never rotates
balance_no_rotation(root) ==
    IF root = NULL THEN NULL
    ELSE [root EXCEPT !.height =
             int_max_(height_(root.left), height_(root.right)) + 1]

balance_(root) ==
    IF root = NULL THEN NULL
    ELSE LET rotated ==
               IF height_(root.left) - height_(root.right) > MAX_IMBALANCE
               THEN IF height_(root.left.left) > height_(root.left.right)
                    THEN rotate_with_left_(root)
                    ELSE double_with_left_(root)
               ELSE IF height_(root.right) - height_(root.left) > MAX_IMBALANCE
               THEN IF height_(root.right.right) > height_(root.right.left)
                    THEN rotate_with_right_(root)
                    ELSE double_with_right_(root)
               ELSE root
         IN  [rotated EXCEPT !.height =
                 int_max_(height_(rotated.left), height_(rotated.right)) + 1]

\* get_min_ that does not walk down the left links
get_min_no_descent(root) == root

RECURSIVE get_min_(_)
get_min_(root) ==
    IF root # NULL /\ root.left # NULL THEN get_min_(root.left) ELSE root

(* The mutating functions return the new subtree root together with the   *)
(* sequence of objects handed to ops->free_object, in call order.         *)
RECURSIVE insert_(_, _, _)
\* insert_ that, on an equal key, keeps the new payload and drops the old one
insert_keep_new(root, ops, object) ==
    IF root = NULL
    THEN [root |-> mknode_(object), freed |-> <<>>]
    ELSE IF compare_object(object, root.object) < 0
    THEN LET sub == insert_(root.left, ops, object)
         IN  [root |-> balance_([root EXCEPT !.left = sub.root]),
              freed |-> sub.freed]
    ELSE IF compare_object(object, root.object) > 0
    THEN LET sub == insert_(root.right, ops, object)
         IN  [root |-> balance_([root EXCEPT !.right = sub.root]),
              freed |-> sub.freed]
    ELSE [root |-> balance_([root EXCEPT !.count = @ + 1, !.object = object]),
          freed |-> IF ops.free_object THEN <<root.object>> ELSE <<>>]

insert_(root, ops, object) ==
    IF root = NULL
    THEN [root |-> mknode_(object), freed |-> <<>>]
    ELSE IF compare_object(object, root.object) < 0
    THEN LET sub == insert_(root.left, ops, object)
         IN  [root |-> balance_([root EXCEPT !.left = sub.root]),
              freed |-> sub.freed]
    ELSE IF compare_object(object, root.object) > 0
    THEN LET sub == insert_(root.right, ops, object)
         IN  [root |-> balance_([root EXCEPT !.right = sub.root]),
              freed |-> sub.freed]
    ELSE [root |-> balance_([root EXCEPT !.count = @ + 1]),
          freed |-> IF ops.free_object THEN <<object>> ELSE <<>>]

RECURSIVE replace_(_, _, _)
replace_(root, ops, object) ==
    IF root = NULL
    THEN [root |-> mknode_(object), freed |-> <<>>]
    ELSE IF compare_object(object, root.object) < 0
    THEN LET sub == replace_(root.left, ops, object)
         IN  [root |-> balance_([root EXCEPT !.left = sub.root]),
              freed |-> sub.freed]
    ELSE IF compare_object(object, root.object) > 0
    THEN LET sub == replace_(root.right, ops, object)
         IN  [root |-> balance_([root EXCEPT !.right = sub.root]),
              freed |-> sub.freed]
    ELSE [root |-> balance_([root EXCEPT !.object = object]),
          freed |-> IF ops.free_object THEN <<root.object>> ELSE <<>>]

RECURSIVE destroy_(_, _)
destroy_(root, ops) ==
    IF root = NULL THEN <<>>
    ELSE destroy_(root.left, ops) \o destroy_(root.right, ops)
         \o (IF ops.free_object THEN <<root.object>> ELSE <<>>)

RECURSIVE count_(_, _)
count_(root, object) ==
    IF root = NULL THEN 0
    ELSE IF compare_object(object, root.object) < 0
    THEN count_(root.left, object)
    ELSE IF compare_object(object, root.object) > 0
    THEN count_(root.right, object)
    ELSE root.count

RECURSIVE search_(_, _)
search_(root, key) ==
    IF root = NULL THEN NULL
    ELSE IF compare_object(key, root.object) < 0
    THEN search_(root.left, key)
    ELSE IF compare_object(key, root.object) > 0
    THEN search_(root.right, key)
    ELSE root.object

RECURSIVE remove_(_, _, _)
\* remove_ that removes the successor with the caller's ops, destructor and all
remove_owning_inner(root, ops, key) ==
    IF root = NULL
    THEN [root |-> NULL, freed |-> <<>>]
    ELSE IF compare_object(key, root.object) < 0
    THEN LET sub == remove_(root.left, ops, key)
         IN  [root |-> balance_([root EXCEPT !.left = sub.root]),
              freed |-> sub.freed]
    ELSE IF compare_object(key, root.object) > 0
    THEN LET sub == remove_(root.right, ops, key)
         IN  [root |-> balance_([root EXCEPT !.right = sub.root]),
              freed |-> sub.freed]
    ELSE IF root.left = NULL \/ root.right = NULL
    THEN [root |-> IF root.left # NULL THEN root.left ELSE root.right,
          freed |-> IF ops.free_object THEN <<root.object>> ELSE <<>>]
    ELSE LET right_min == get_min_(root.right)
             sub == remove_(root.right, ops, right_min.object)
         IN  [root |-> balance_([root EXCEPT !.object = right_min.object,
                                             !.right = sub.root]),
              freed |-> (IF ops.free_object THEN <<root.object>> ELSE <<>>)
                        \o sub.freed]

remove_(root, ops, key) ==
    IF root = NULL
    THEN [root |-> NULL, freed |-> <<>>]
    ELSE IF compare_object(key, root.object) < 0
    THEN LET sub == remove_(root.left, ops, key)
         IN  [root |-> balance_([root EXCEPT !.left = sub.root]),
              freed |-> sub.freed]
    ELSE IF compare_object(key, root.object) > 0
    THEN LET sub == remove_(root.right, ops, key)
         IN  [root |-> balance_([root EXCEPT !.right = sub.root]),
              freed |-> sub.freed]
    ELSE IF root.left = NULL \/ root.right = NULL
    THEN [root |-> IF root.left # NULL THEN root.left ELSE root.right,
          freed |-> IF ops.free_object THEN <<root.object>> ELSE <<>>]
    ELSE LET right_min == get_min_(root.right)
             tmp_ops == [ops EXCEPT !.free_object = FALSE]
             sub == remove_(root.right, tmp_ops, right_min.object)
         IN  [root |-> balance_([root EXCEPT !.object = right_min.object,
                                             !.right = sub.root]),
              freed |-> (IF ops.free_object THEN <<root.object>> ELSE <<>>)
                        \o sub.freed]

(* The nodes handed to balance_ by one call of insert_, replace_ or        *)
(* remove_, in call order (innermost first): each is the node as it is at *)
(* the return statement, after the recursive call has relinked its child. *)
RECURSIVE insert_balance_args_(_, _, _)
insert_balance_args_(root, ops, object) ==
    IF root = NULL THEN <<>>
    ELSE IF compare_object(object, root.object) < 0
    THEN Append(insert_balance_args_(root.left, ops, object),
                [root EXCEPT !.left = insert_(root.left, ops, object).root])
    ELSE IF compare_object(object, root.object) > 0
    THEN Append(insert_balance_args_(root.right, ops, object),
                [root EXCEPT !.right = insert_(root.right, ops, object).root])
    ELSE <<[root EXCEPT !.count = @ + 1]>>

RECURSIVE replace_balance_args_(_, _, _)
replace_balance_args_(root, ops, object) ==
    IF root = NULL THEN <<>>
    ELSE IF compare_object(object, root.object) < 0
    THEN Append(replace_balance_args_(root.left, ops, object),
                [root EXCEPT !.left = replace_(root.left, ops, object).root])
    ELSE IF compare_object(object, root.object) > 0
    THEN Append(replace_balance_args_(root.right, ops, object),
                [root EXCEPT !.right = replace_(root.right, ops, object).root])
    ELSE <<[root EXCEPT !.object = object]>>

RECURSIVE remove_balance_args_(_, _, _)
remove_balance_args_(root, ops, key) ==
    IF root = NULL THEN <<>>
    ELSE IF compare_object(key, root.object) < 0
    THEN Append(remove_balance_args_(root.left, ops, key),
                [root EXCEPT !.left = remove_(root.left, ops, key).root])
    ELSE IF compare_object(key, root.object) > 0
    THEN Append(remove_balance_args_(root.right, ops, key),
                [root EXCEPT !.right = remove_(root.right, ops, key).root])
    ELSE IF root.left = NULL \/ root.right = NULL
    THEN <<>>
    ELSE LET right_min == get_min_(root.right)
             tmp_ops == [ops EXCEPT !.free_object = FALSE]
         IN  Append(remove_balance_args_(root.right, tmp_ops, right_min.object),
                    [root EXCEPT !.object = right_min.object,
                                 !.right = remove_(root.right, tmp_ops,
                                                   right_min.object).root])

RECURSIVE size_(_)
size_(root) ==
    IF root = NULL THEN 0 ELSE size_(root.left) + size_(root.right) + 1

(* ---------------------------------------------------------------------- *)
(* Traversal.  it_data is the visitor's private state: the call number at *)
(* which it asks to stop (0: never), the calls made so far and the        *)
(* objects it was called on.  operation is a visitor in the style of      *)
(* sum_int_lt_5: it returns 0 to continue and 1 to stop.                  *)
(* ---------------------------------------------------------------------- *)
new_it_data(stop) == [stop |-> stop, calls |-> 0, visited |-> <<>>]

operation(object, it_data) ==
    LET d == [it_data EXCEPT !.calls = @ + 1, !.visited = Append(@, object)]
    IN  [ret |-> IF d.calls = d.stop THEN 1 ELSE 0, it_data |-> d]

RECURSIVE traverse_inorder_(_, _)
traverse_inorder_(root, it_data) ==
    IF root = NULL THEN [ret |-> 0, it_data |-> it_data]
    ELSE LET l == traverse_inorder_(root.left, it_data)
         IN  IF l.ret # 0 THEN [ret |-> 1, it_data |-> l.it_data]
             ELSE LET o == operation(root.object, l.it_data)
                  IN  IF o.ret # 0 THEN [ret |-> 1, it_data |-> o.it_data]
                      ELSE LET r == traverse_inorder_(root.right, o.it_data)
                           IN  [ret |-> IF r.ret # 0 THEN 1 ELSE 0,
                                it_data |-> r.it_data]

\* the loop of traverse_inorder_cnt_ run once whatever the count
visit_count_once(root, i, it_data) == operation(root.object, it_data)

\* the for loop of traverse_inorder_cnt_, entered with loop index i
RECURSIVE visit_count_(_, _, _)
visit_count_(root, i, it_data) ==
    IF i < root.count
    THEN LET o == operation(root.object, it_data)
         IN  IF o.ret # 0 THEN [ret |-> 1, it_data |-> o.it_data]
             ELSE visit_count_(root, i + 1, o.it_data)
    ELSE [ret |-> 0, it_data |-> it_data]

RECURSIVE traverse_inorder_cnt_(_, _)
traverse_inorder_cnt_(root, it_data) ==
    IF root = NULL THEN [ret |-> 0, it_data |-> it_data]
    ELSE LET l == traverse_inorder_cnt_(root.left, it_data)
         IN  IF l.ret # 0 THEN [ret |-> 1, it_data |-> l.it_data]
             ELSE LET o == visit_count_(root, 0, l.it_data)
                  IN  IF o.ret # 0 THEN [ret |-> 1, it_data |-> o.it_data]
                      ELSE LET r == traverse_inorder_cnt_(root.right, o.it_data)
                           IN  IF r.ret # 0
                               THEN [ret |-> 1, it_data |-> r.it_data]
                               ELSE [ret |-> 0, it_data |-> r.it_data]

(* ---------------------------------------------------------------------- *)
(* State                                                                  *)
(*   tree      struct bstree: root and ops (free_object: is it non-NULL)  *)
(*   destroyed bstree_destroy has run                                     *)
(*   nextObj   identity of the next payload the client allocates          *)
(*   freed     per payload, the number of free_object calls on it         *)
(*   entered   per key, entries since creation or the last remove of it   *)
(*   last      the last interface call: arguments, what it found, result  *)
(* ---------------------------------------------------------------------- *)
Occurrences(seq, p) == Cardinality({i \in DOMAIN seq : seq[i][2] = p})

free_object(fr, objects) ==
    [p \in DOMAIN fr |-> fr[p] + Occurrences(objects, p)]

Call(op, object, had, run, first, ret, it_data) ==
    [op |-> op, object |-> object, had |-> had, run |-> run, first |-> first,
     ret |-> ret, it_data |-> it_data]

bstree_new(compare, free) ==
    /\ tree = [root |-> NULL, ops |-> [free_object |-> free]]
    /\ destroyed = FALSE
    /\ nextObj = 1
    /\ freed = [p \in Objs |-> 0]
    /\ entered = [k \in AllKeys |-> 0]
    /\ last = Call("new", NULL, 0, 0, NULL, 0, NULL)

bstree_insert(object) ==
    /\ ~destroyed
    /\ LET res == insert_(tree.root, tree.ops, object)
           had == count_(tree.root, object)
           run == IF had = 0 THEN 1
                  ELSE IF /\ last.op = "insert"
                          /\ last.object[1] = object[1]
                          /\ last.run > 0
                       THEN last.run + 1
                       ELSE 0
           first == IF had = 0 THEN object
                    ELSE IF run > 0 THEN last.first ELSE NULL
       IN  /\ tree' = [tree EXCEPT !.root = res.root]
           /\ freed' = free_object(freed, res.freed)
           /\ entered' = [entered EXCEPT ![object[1]] = @ + 1]
           /\ last' = Call("insert", object, had, run, first, 0, NULL)
    /\ UNCHANGED destroyed

bstree_replace(object) ==
    /\ ~destroyed
    /\ LET res == replace_(tree.root, tree.ops, object)
           had == count_(tree.root, object)
       IN  /\ tree' = [tree EXCEPT !.root = res.root]
           /\ freed' = free_object(freed, res.freed)
           /\ entered' = IF had = 0
                         THEN [entered EXCEPT ![object[1]] = 1]
                         ELSE entered
           /\ last' = Call("replace", object, had, 0, NULL, 0, NULL)
    /\ UNCHANGED destroyed

bstree_remove(key) ==
    /\ ~destroyed
    /\ LET res == remove_(tree.root, tree.ops, key)
           had == count_(tree.root, key)
       IN  /\ tree' = [tree EXCEPT !.root = res.root]
           /\ freed' = free_object(freed, res.freed)
           /\ entered' = [entered EXCEPT ![key[1]] = 0]
           /\ last' = Call("remove", key, had, 0, NULL, 0, NULL)
    /\ UNCHANGED <<destroyed, nextObj>>

bstree_traverse_inorder(stop) ==
    /\ ~destroyed
    /\ LET res == traverse_inorder_(tree.root, new_it_data(stop))
       IN  last' = Call("traverse_inorder", NULL, 0, 0, NULL,
                        res.ret, res.it_data)
    /\ UNCHANGED <<tree, destroyed, nextObj, freed, entered>>

bstree_traverse_inorder_cnt(stop) ==
    /\ ~destroyed
    /\ LET res == traverse_inorder_cnt_(tree.root, new_it_data(stop))
       IN  last' = Call("traverse_inorder_cnt", NULL, 0, 0, NULL,
                        res.ret, res.it_data)
    /\ UNCHANGED <<tree, destroyed, nextObj, freed, entered>>

bstree_destroy ==
    /\ ~destroyed
    /\ freed' = free_object(freed, destroy_(tree.root, tree.ops))
    /\ tree' = [tree EXCEPT !.root = NULL]
    /\ destroyed' = TRUE
    /\ last' = Call("destroy", NULL, 0, 0, NULL, 0, NULL)
    /\ UNCHANGED <<nextObj, entered>>

bstree_count(key) == count_(tree.root, key)

bstree_search(key) == search_(tree.root, key)

bstree_size == size_(tree.root)

bstree_height == height_(tree.root)

(* ---------------------------------------------------------------------- *)
(* Clients                                                                *)
(* ---------------------------------------------------------------------- *)
\* A client that allocates every payload it hands over (as main does with
\* malloc), with or without a destructor, and calls the mutating interface
\* functions in any order.
Insert(k) ==
    /\ nextObj <= MaxObj
    /\ bstree_insert(<<k, nextObj>>)
    /\ nextObj' = nextObj + 1

Replace(k) ==
    /\ nextObj <= MaxObj
    /\ bstree_replace(<<k, nextObj>>)
    /\ nextObj' = nextObj + 1

Remove(k) == bstree_remove(<<k>>)

Init == \E free \in BOOLEAN : bstree_new("cmp_int", free)

Next ==
    \/ \E k \in Keys : Insert(k)
    \/ \E k \in Keys : Replace(k)
    \/ \E k \in Keys : Remove(k)
    \/ bstree_destroy

Spec == Init /\ [][Next]_vars

\* The calls of main, for any values and in any order: inserts of allocated
\* ints, traversals with a visitor that may stop, removals, destruction.
NextMain ==
    \/ \E k \in Keys : Insert(k)
    \/ \E stop \in 0..MaxStop : bstree_traverse_inorder(stop)
    \/ \E stop \in 0..MaxStop : bstree_traverse_inorder_cnt(stop)
    \/ \E k \in Keys : Remove(k)
    \/ bstree_destroy

SpecMain == Init /\ [][NextMain]_vars

\* A client that keeps a set of ints in a container without destructor:
\* the objects are the ints themselves (allocation identity 0), and it
\* inserts a value only when bstree_count reports it absent.
WideInsert(k) ==
    /\ bstree_count(<<k>>) = 0
    /\ bstree_insert(<<k, 0>>)
    /\ UNCHANGED nextObj

WideReplace(k) ==
    /\ bstree_replace(<<k, 0>>)
    /\ UNCHANGED nextObj

WideRemove(k) == bstree_remove(<<k>>)

InitWide == bstree_new("cmp_int", FALSE)

NextWide ==
    \/ \E k \in WideKeys : WideInsert(k)
    \/ \E k \in WideKeys : WideReplace(k)
    \/ \E k \in WideKeys : WideRemove(k)

SpecWide == InitWide /\ [][NextWide]_vars

\* A client that inserts distinct ints into an empty container, in any order.
SeqInsert(k) ==
    /\ bstree_count(<<k>>) = 0
    /\ bstree_insert(<<k, 0>>)
    /\ UNCHANGED nextObj

NextSeq == \E k \in SeqKeys : SeqInsert(k)

SpecSeq == InitWide /\ [][NextSeq]_vars

\* The int-set client again, inserting and removing only.
NextSet ==
    \/ \E k \in SetKeys : WideInsert(k)
    \/ \E k \in SetKeys : WideRemove(k)

SpecSet == InitWide /\ [][NextSet]_vars

(* ---------------------------------------------------------------------- *)
(* Vocabulary of the properties                                           *)
(* ---------------------------------------------------------------------- *)
Abs(x) == IF x < 0 THEN -x ELSE x

\* the subtrees of t, one per node
RECURSIVE Nodes(_)
Nodes(t) == IF t = NULL THEN {} ELSE {t} \cup Nodes(t.left) \cup Nodes(t.right)

\* height recomputed from the links: -1 for an absent subtree, 0 for a leaf
RECURSIVE Height(_)
Height(t) ==
    IF t = NULL THEN -1
    ELSE 1 + (IF Height(t.left) > Height(t.right) THEN Height(t.left)
                                                   ELSE Height(t.right))

KeysOf(t) == {n.object[1] : n \in Nodes(t)}

AVL(t) == \A n \in Nodes(t) : Abs(Height(n.left) - Height(n.right)) <= 1

\* C1: after any sequence of insert / replace / remove calls, every node has
\* |height(left) - height(right)| <= 1, an absent subtree having height -1.
C1_Balance == AVL(tree.root)

\* the number of nodes of t whose key is k
RECURSIVE NodesWithKey(_, _)
NodesWithKey(t, k) ==
    IF t = NULL THEN 0
    ELSE NodesWithKey(t.left, k) + NodesWithKey(t.right, k)
         + (IF t.object[1] = k THEN 1 ELSE 0)

\* the objects of t, left subtree first, then the node, then the right one
RECURSIVE PlainSeq(_)
PlainSeq(t) ==
    IF t = NULL THEN <<>>
    ELSE PlainSeq(t.left) \o <<t.object>> \o PlainSeq(t.right)

\* the same, each object repeated count times
RECURSIVE CountedSeq(_)
CountedSeq(t) ==
    IF t = NULL THEN <<>>
    ELSE CountedSeq(t.left) \o [i \in 1..t.count |-> t.object]
         \o CountedSeq(t.right)

\* the number of nodes of t that store the payload p
RECURSIVE NodesWithPayload(_, _)
NodesWithPayload(t, p) ==
    IF t = NULL THEN 0
    ELSE NodesWithPayload(t.left, p) + NodesWithPayload(t.right, p)
         + (IF t.object[2] = p THEN 1 ELSE 0)

\* the links and keys of t, without payloads, counts and heights
RECURSIVE Shape(_)
Shape(t) ==
    IF t = NULL THEN NULL ELSE <<Shape(t.left), t.object[1], Shape(t.right)>>

\* ceil(1.44 * log2(N + 2)) for N = 0, 1, 2, ...: the least m with
\* 2^(25 m) >= (N + 2)^36, tabulated because the powers exceed the integers
HeightBoundTable ==
    <<2, 3, 3, 4, 4, 5, 5, 5, 5, 5, 6, 6, 6, 6, 6, 6, 7, 7, 7, 7, 7>>

HeightBound(N) == HeightBoundTable[N + 1]

Owning == tree.ops.free_object

\* C2: for every key k, bstree_count(k) is the number of times k entered the
\* tree since creation or since the last bstree_remove(k), and 0 when absent;
\* removing one key never changes the count reported for another key.
C2_CountIsEntries ==
    ~destroyed => \A k \in Keys : bstree_count(<<k>>) = entered[k]

\* C3: bstree_remove of a key that is not in the tree changes nothing: same
\* root, links, payloads, counts, heights and size, and no payload destroyed.
C3_RemoveAbsentNoop ==
    [][(last'.op = "remove" /\ last'.had = 0)
         => /\ tree' = tree
            /\ size_(tree'.root) = size_(tree.root)
            /\ freed' = freed]_vars

\* C4: the tree is a search tree without duplicate nodes: the keys left of a
\* node compare less, the keys right of it compare greater, and a plain
\* in-order traversal visits the keys in strictly increasing order.
C4_Order ==
    /\ \A n \in Nodes(tree.root) :
          /\ \A m \in Nodes(n.left) : compare_object(m.object, n.object) < 0
          /\ \A m \in Nodes(n.right) : compare_object(m.object, n.object) > 0
    /\ \A k \in Keys : NodesWithKey(tree.root, k) <= 1
    /\ LET v == traverse_inorder_(tree.root, new_it_data(0)).it_data.visited
       IN  /\ Len(v) = size_(tree.root)
           /\ \A i \in 1..(Len(v) - 1) : compare_object(v[i], v[i + 1]) < 0

\* a removal that had to rebalance: four keys were stored and the root changed
C4_Witness ==
    /\ last.op = "remove" /\ last.had > 0
    /\ size_(tree.root) = 3
    /\ tree.root.left # NULL /\ tree.root.right # NULL
    /\ nextObj > MaxObj

\* C5: bstree_remove of a present key removes exactly that key: it is no
\* longer found and its count is 0 whatever its count was, the size drops by
\* exactly 1, every other key is still found with the same payload; removing
\* the last key leaves the empty tree (root absent, size 0, height -1).
C5_RemovePresent ==
    [][(last'.op = "remove" /\ last'.had > 0)
         => LET key == last'.object
            IN  /\ search_(tree'.root, key) = NULL
                /\ count_(tree'.root, key) = 0
                /\ NodesWithKey(tree'.root, key[1]) = 0
                /\ size_(tree'.root) = size_(tree.root) - 1
                /\ \A j \in Keys \ {key[1]} :
                      search_(tree'.root, <<j>>) = search_(tree.root, <<j>>)
                /\ size_(tree.root) = 1
                      => /\ tree'.root = NULL
                         /\ size_(tree'.root) = 0
                         /\ height_(tree'.root) = -1]_vars

\* a key inserted more than once was removed from between two other keys
C5_Witness ==
    /\ last.op = "remove" /\ last.had >= 2
    /\ size_(tree.root) = 2
    /\ bstree_search(last.object) = NULL

\* C6: with a destructor, every payload handed to insert or replace is
\* destroyed exactly once by the time bstree_destroy has run: never twice,
\* never while a node still stores it, none left over; this covers the
\* removal of a node with two children.  Without a destructor no payload is
\* ever destroyed.
C6_DestroyedOnce ==
    /\ \A p \in Objs : freed[p] <= 1
    /\ \A p \in Objs : p >= nextObj => freed[p] = 0
    /\ \A n \in Nodes(tree.root) :
          n.object[2] \in Objs => freed[n.object[2]] = 0
    /\ \A p \in Objs : NodesWithPayload(tree.root, p) <= 1
    /\ (Owning /\ destroyed) => \A p \in 1..(nextObj - 1) : freed[p] = 1
    /\ ~Owning => \A p \in Objs : freed[p] = 0

\* an owning container was destroyed after every payload had been handed over
C6_Witness ==
    /\ Owning /\ destroyed
    /\ nextObj = MaxObj + 1
    /\ \A p \in Objs : freed[p] = 1

\* C7: k consecutive inserts of a key that was absent give exactly one node
\* of that key with count k and the payload of the first insert; the later
\* payloads are never stored and are destroyed when the container owns them;
\* the counted traversal visits that payload k times in a row, the plain
\* traversal once.
C7_Duplicates ==
    (last.op = "insert" /\ last.run >= 1)
      => LET k == last.run
             key == last.object[1]
             cnt == traverse_inorder_cnt_(tree.root, new_it_data(0)).it_data.visited
             pln == traverse_inorder_(tree.root, new_it_data(0)).it_data.visited
             at(v) == {i \in DOMAIN v : v[i] = last.first}
         IN  /\ NodesWithKey(tree.root, key) = 1
             /\ bstree_count(<<key>>) = k
             /\ bstree_search(<<key>>) = last.first
             /\ \A p \in (last.first[2] + 1)..last.object[2] :
                   /\ NodesWithPayload(tree.root, p) = 0
                   /\ freed[p] = IF Owning THEN 1 ELSE 0
             /\ freed[last.first[2]] = 0
             /\ Cardinality(at(cnt)) = k
             /\ \A i, j \in at(cnt) : \A m \in i..j : m \in at(cnt)
             /\ Cardinality(at(pln)) = 1

\* three inserts in a row of one key, next to another key, in an owning tree
C7_Witness ==
    /\ last.op = "insert" /\ last.run = 3
    /\ Owning
    /\ size_(tree.root) = 2

\* C8: bstree_replace of a present key leaves the count, the shape and the
\* size as they were and stores the new payload (the old one is destroyed if
\* and only if the container owns payloads); of an absent key it acts as
\* insert: one more node, with count 1.
C8_Replace ==
    [][(last'.op = "replace")
         => LET object == last'.object
                old == search_(tree.root, object)
            IN  IF last'.had > 0
                THEN /\ count_(tree'.root, object) = count_(tree.root, object)
                     /\ Shape(tree'.root) = Shape(tree.root)
                     /\ size_(tree'.root) = size_(tree.root)
                     /\ search_(tree'.root, object) = object
                     /\ \A p \in Objs :
                           freed'[p] = freed[p]
                             + (IF Owning /\ p = old[2] THEN 1 ELSE 0)
                ELSE /\ tree'.root = insert_(tree.root, tree.ops, object).root
                     /\ count_(tree'.root, object) = 1
                     /\ size_(tree'.root) = size_(tree.root) + 1
                     /\ freed' = freed]_vars

\* C9: a visitor that stops at its n-th call is called exactly n times, on
\* the first n elements of the in-order sequence (each payload repeated
\* count times for the counted variant), and the traversal returns non-zero;
\* a visitor that never stops sees every element and the traversal returns
\* 0; on the empty tree it is not called and the result is 0.
C9_EarlyStop ==
    (last.op \in {"traverse_inorder", "traverse_inorder_cnt"})
      => LET s == IF last.op = "traverse_inorder"
                  THEN PlainSeq(tree.root) ELSE CountedSeq(tree.root)
             d == last.it_data
         IN  IF d.stop >= 1 /\ d.stop <= Len(s)
             THEN /\ d.calls = d.stop
                  /\ d.visited = SubSeq(s, 1, d.stop)
                  /\ last.ret # 0
             ELSE /\ d.calls = Len(s)
                  /\ d.visited = s
                  /\ last.ret = 0

\* the counted traversal was stopped inside a run of duplicates
C9_Witness ==
    /\ last.op = "traverse_inorder_cnt"
    /\ last.ret = 1
    /\ LET s == CountedSeq(tree.root)
           n == last.it_data.stop
       IN  /\ n >= 2 /\ n < Len(s)
           /\ s[n] = s[n + 1]
           /\ s[n - 1] # s[n]

\* C10: N distinct keys inserted in any order into an empty container: the
\* plain in-order traversal visits exactly those keys in ascending order,
\* bstree_size is N, and bstree_height is at most ceil(1.44 * log2(N + 2)),
\* and -1 when N = 0.
C10_RoundTrip ==
    LET inserted == {k \in AllKeys : entered[k] > 0}
        N == Cardinality(inserted)
        v == traverse_inorder_(tree.root, new_it_data(0)).it_data.visited
    IN  /\ Len(v) = N
        /\ {v[i][1] : i \in DOMAIN v} = inserted
        /\ \A i \in 1..(Len(v) - 1) : v[i][1] < v[i + 1][1]
        /\ bstree_size = N
        /\ bstree_height <= HeightBound(N)
        /\ N = 0 => bstree_height = -1

\* seven keys inserted in an order that leaves the tree one level deeper
\* than the perfect tree of seven nodes
C10_Witness ==
    /\ last.op = "insert"
    /\ bstree_size = 7
    /\ bstree_height = 3

\* the nodes handed to balance_ during the step that made the call in last'
BalanceArgs ==
    IF last'.op = "insert"
    THEN insert_balance_args_(tree.root, tree.ops, last'.object)
    ELSE IF last'.op = "replace"
    THEN replace_balance_args_(tree.root, tree.ops, last'.object)
    ELSE IF last'.op = "remove"
    THEN remove_balance_args_(tree.root, tree.ops, last'.object)
    ELSE <<>>

\* the height refresh that ends balance_
Refreshed(n) ==
    [n EXCEPT !.height = int_max_(height_(n.left), height_(n.right)) + 1]

\* what rebalance does to n according to the rule: on the heavier side, a
\* double rotation only when the inner grandchild is strictly taller than
\* the outer one, a single rotation otherwise
SingleUnlessInnerTaller(n) ==
    IF height_(n.left) - height_(n.right) > 1
    THEN IF height_(n.left.right) > height_(n.left.left)
         THEN Refreshed(double_with_left_(n))
         ELSE Refreshed(rotate_with_left_(n))
    ELSE IF height_(n.right) - height_(n.left) > 1
    THEN IF height_(n.right.left) > height_(n.right.right)
         THEN Refreshed(double_with_right_(n))
         ELSE Refreshed(rotate_with_right_(n))
    ELSE Refreshed(n)

\* C11: when balance_ is applied to a node whose heavier side exceeds the
\* other by more than 1, it performs a single rotation whenever the inner
\* grandchild on that side is not strictly taller than the outer one (equal
\* heights included) and a double rotation only when it is strictly taller.
C11_SingleOnTie ==
    [][\A i \in DOMAIN BalanceArgs :
          balance_(BalanceArgs[i]) = SingleUnlessInnerTaller(BalanceArgs[i])]_vars

\* C12: every node's cached height is 1 + max(height(left), height(right))
\* recomputed from its children (absent subtree -1, leaf 0), so
\* bstree_height is the true height of the tree, -1 when it is empty.
C12_HeightCache ==
    /\ \A n \in Nodes(tree.root) :
          /\ n.height = 1 + int_max_(height_(n.left), height_(n.right))
          /\ n.height = Height(n)
    /\ bstree_height = Height(tree.root)

\* a removal has rotated and left a node out of balance
C12_Witness ==
    /\ last.op = "remove" /\ last.had > 0
    /\ ~AVL(tree.root)
    /\ bstree_height = 3

\* C13: each time balance_ is invoked on a node, both child subtrees of the
\* node are AVL-valid (every node in them has imbalance <= 1) and the node's
\* own imbalance |height(left) - height(right)| is at most 2.
C13_BalancePrecondition ==
    [][\A i \in DOMAIN BalanceArgs :
          LET n == BalanceArgs[i]
          IN  /\ AVL(n.left)
              /\ AVL(n.right)
              /\ Abs(Height(n.left) - Height(n.right)) <= 2]_vars

====
